---- MODULE Spec2Model ----
(***************************************************************************)
(* Instruction-set simulator (src/issgui.py): the CPU state, the          *)
(* instruction execution engine, the two run modes of the controller      *)
(* (Step All = Run-all, Next = Follow-PC) and the undo/redo history.       *)
(*                                                                         *)
(* Text is modelled as sequences of one-character strings, so that the     *)
(* decoder (comment stripping, tokenising, operand splitting, number and   *)
(* register parsing) is computed the way the Python code computes it.      *)
(***************************************************************************)
EXTENDS Integers, Sequences, FiniteSets, TLC

VARIABLES cpu_state, state_history, redo_stack, instruction_entry,
          pc, loop_i, iterations, call, messagebox

vars == <<cpu_state, state_history, redo_stack, instruction_entry,
          pc, loop_i, iterations, call, messagebox>>

(***************************************************************************)
(* Python string primitives used by the decoder.                           *)
(***************************************************************************)

\* str.isspace() on the characters of the model's alphabet
Whitespace == {" ", "\t", "\n", "\r"}

\* value of a digit character in bases up to 16 (int() accepts both cases)
DigitVal(c) ==
  CASE c = "0" -> 0 [] c = "1" -> 1 [] c = "2" -> 2 [] c = "3" -> 3
    [] c = "4" -> 4 [] c = "5" -> 5 [] c = "6" -> 6 [] c = "7" -> 7
    [] c = "8" -> 8 [] c = "9" -> 9
    [] c \in {"a", "A"} -> 10 [] c \in {"b", "B"} -> 11
    [] c \in {"c", "C"} -> 12 [] c \in {"d", "D"} -> 13
    [] c \in {"e", "E"} -> 14 [] c \in {"f", "F"} -> 15
    [] OTHER -> 99

\* str.upper() on one character
UpperChar(c) ==
  CASE c = "a" -> "A" [] c = "b" -> "B" [] c = "c" -> "C" [] c = "d" -> "D"
    [] c = "e" -> "E" [] c = "f" -> "F" [] c = "g" -> "G" [] c = "h" -> "H"
    [] c = "i" -> "I" [] c = "j" -> "J" [] c = "k" -> "K" [] c = "l" -> "L"
    [] c = "m" -> "M" [] c = "n" -> "N" [] c = "o" -> "O" [] c = "p" -> "P"
    [] c = "q" -> "Q" [] c = "r" -> "R" [] c = "s" -> "S" [] c = "t" -> "T"
    [] c = "u" -> "U" [] c = "v" -> "V" [] c = "w" -> "W" [] c = "x" -> "X"
    [] c = "y" -> "Y" [] c = "z" -> "Z"
    [] OTHER -> c

\* str.upper()
Upper(s) == [i \in 1..Len(s) |-> UpperChar(s[i])]

\* s[n:] in Python
DropFirst(s, n) == SubSeq(s, n + 1, Len(s))

\* least and greatest element of a non-empty set of numbers
MinOf(S) == CHOOSE i \in S : \A j \in S : i <= j
MaxOf(S) == CHOOSE i \in S : \A j \in S : j <= i

\* the positions of s that hold a character of the set cs
Positions(s, cs) == {i \in 1..Len(s) : s[i] \in cs}

\* s.index(c) + 1 when c occurs in s, 0 otherwise
FirstOf(P) == IF P = {} THEN 0 ELSE MinOf(P)
IndexOf(s, c) == FirstOf(Positions(s, {c}))

\* str.strip(): keep is the set of positions holding no whitespace
StripTo(s, keep) == IF keep = {} THEN <<>> ELSE SubSeq(s, MinOf(keep), MaxOf(keep))
Strip(s) == StripTo(s, {i \in 1..Len(s) : s[i] \notin Whitespace})

\* str.split(sep) for a one-character separator: empty fields are kept
RECURSIVE SplitOn(_, _)
SplitAt(s, sep, k) ==
  IF k = 0 THEN <<s>>
  ELSE <<SubSeq(s, 1, k - 1)>> \o SplitOn(DropFirst(s, k), sep)
SplitOn(s, sep) == SplitAt(s, sep, IndexOf(s, sep))

\* str.split() without argument: runs of whitespace separate, no empty token
RECURSIVE SplitWS(_)
SplitStripped(t, k) ==
  IF t = <<>> THEN <<>>
  ELSE IF k = 0 THEN <<t>>
  ELSE <<SubSeq(t, 1, k - 1)>> \o SplitWS(DropFirst(t, k))
SplitFirst(t) == SplitStripped(t, FirstOf(Positions(t, Whitespace)))
SplitWS(s) == SplitFirst(Strip(s))

\* sep.join(parts) for a one-character separator
RECURSIVE Join(_, _)
Join(parts, sep) ==
  IF parts = <<>> THEN <<>>
  ELSE IF Len(parts) = 1 THEN parts[1]
  ELSE parts[1] \o <<sep>> \o Join(Tail(parts), sep)

\* value of a digit string in the given base
RECURSIVE DigitsValue(_, _)
DigitsValue(s, base) ==
  IF s = <<>> THEN 0
  ELSE DigitsValue(SubSeq(s, 1, Len(s) - 1), base) * base + DigitVal(s[Len(s)])

IsDigits(s, base) == s # <<>> /\ \A i \in 1..Len(s) : DigitVal(s[i]) < base

\* int(text, base) for base 10 and base 0.  [ok |-> FALSE] stands for the
\* ValueError.  With base 0 a prefix 0x, 0o or 0b decides the base, and a
\* decimal literal with a leading zero is accepted only when it is zero.
NotInt == [ok |-> FALSE, val |-> 0]
IntOf(neg, v) == [ok |-> TRUE, val |-> IF neg THEN 0 - v ELSE v]

Prefix(body) ==
  IF Len(body) >= 2 /\ body[1] = "0"
    THEN (CASE body[2] \in {"x", "X"} -> 16
            [] body[2] \in {"o", "O"} -> 8
            [] body[2] \in {"b", "B"} -> 2
            [] OTHER -> 0)
    ELSE 0

ParseDigits(neg, digits, base) ==
  IF IsDigits(digits, base) THEN IntOf(neg, DigitsValue(digits, base)) ELSE NotInt

ParseBody(neg, body, base, pfx) ==
  IF base = 0 /\ pfx # 0 THEN ParseDigits(neg, DropFirst(body, 2), pfx)
  ELSE IF base = 0 /\ IsDigits(body, 10) /\ body[1] = "0"
          /\ DigitsValue(body, 10) # 0 THEN NotInt
  ELSE ParseDigits(neg, body, 10)

ParseSigned(t, base) ==
  IF t # <<>> /\ t[1] \in {"-", "+"}
    THEN ParseBody(t[1] = "-", DropFirst(t, 1), base, Prefix(DropFirst(t, 1)))
    ELSE ParseBody(FALSE, t, base, Prefix(t))

ParseInt(text, base) == ParseSigned(Strip(text), base)

(***************************************************************************)
(* CPU state                                                               *)
(***************************************************************************)

NumRegisters == 8
MemorySize == 64

\* CPUState.__init__
CPUState ==
  [registers |-> [i \in 0..(NumRegisters - 1) |-> 0],
   memory |-> [i \in 0..(MemorySize - 1) |-> 0],
   special_registers |->
     [PC |-> 0, IR |-> <<>>, MAR |-> 0, MDR |-> 0,
      FLAGS |-> [Z |-> 0, N |-> 0, C |-> 0, V |-> 0]],
   instruction_history |-> <<>>,
   current_line |-> 0,
   modified_registers |-> {},
   modified_memory |-> {},
   animation_active |-> FALSE]

\* a snapshot that does not carry the instruction history
copy_NoHistory(self) ==
  [CPUState EXCEPT
     !.registers = self.registers,
     !.memory = self.memory,
     !.special_registers = self.special_registers,
     !.current_line = self.current_line]

\* CPUState.copy: a fresh CPUState with five fields copied; the modified
\* sets and animation_active of the copy are those of a new object
copy(self) ==
  [CPUState EXCEPT !.registers = self.registers,
                   !.memory = self.memory,
                   !.special_registers = self.special_registers,
                   !.instruction_history = self.instruction_history,
                   !.current_line = self.current_line]

\* result & 0x80
Bit7(result) == (result \div 128) % 2 = 1

\* update_flags with the carry test off by one (>= 255 for > 255)
update_flags_CarryAt255(self, result, original_result) ==
  [self EXCEPT
     !.special_registers.FLAGS.Z = IF result = 0 THEN 1 ELSE 0,
     !.special_registers.FLAGS.N = IF Bit7(result) THEN 1 ELSE 0,
     !.special_registers.FLAGS.C =
        IF original_result # <<>>
          THEN (IF original_result[1] >= 255 \/ original_result[1] < 0
                  THEN 1 ELSE 0)
          ELSE @,
     !.special_registers.FLAGS.V =
        IF original_result # <<>>
          THEN (IF original_result[1] # result THEN 1 ELSE 0)
          ELSE @]

\* update_flags with the borrow test left out of the carry
update_flags_NoBorrow(self, result, original_result) ==
  [self EXCEPT
     !.special_registers.FLAGS.Z = IF result = 0 THEN 1 ELSE 0,
     !.special_registers.FLAGS.N = IF Bit7(result) THEN 1 ELSE 0,
     !.special_registers.FLAGS.C =
        IF original_result # <<>>
          THEN (IF original_result[1] > 255 THEN 1 ELSE 0)
          ELSE @,
     !.special_registers.FLAGS.V =
        IF original_result # <<>>
          THEN (IF original_result[1] # result THEN 1 ELSE 0)
          ELSE @]

\* update_flags that clears C and V when it is given no pre-wrap value
update_flags_ClearsCarry(self, result, original_result) ==
  [self EXCEPT
     !.special_registers.FLAGS.Z = IF result = 0 THEN 1 ELSE 0,
     !.special_registers.FLAGS.N = IF Bit7(result) THEN 1 ELSE 0,
     !.special_registers.FLAGS.C =
        IF original_result # <<>>
          THEN (IF original_result[1] > 255 \/ original_result[1] < 0
                  THEN 1 ELSE 0)
          ELSE 0,
     !.special_registers.FLAGS.V =
        IF original_result # <<>>
          THEN (IF original_result[1] # result THEN 1 ELSE 0)
          ELSE 0]

\* update_flags that never writes V
update_flags_KeepsV(self, result, original_result) ==
  [self EXCEPT
     !.special_registers.FLAGS.Z = IF result = 0 THEN 1 ELSE 0,
     !.special_registers.FLAGS.N = IF Bit7(result) THEN 1 ELSE 0,
     !.special_registers.FLAGS.C =
        IF original_result # <<>>
          THEN (IF original_result[1] > 255 \/ original_result[1] < 0
                  THEN 1 ELSE 0)
          ELSE @]

\* CPUState.update_flags; original_result is <<>> for None, <<v>> otherwise
update_flags(self, result, original_result) ==
  [self EXCEPT
     !.special_registers.FLAGS.Z = IF result = 0 THEN 1 ELSE 0,
     !.special_registers.FLAGS.N = IF Bit7(result) THEN 1 ELSE 0,
     !.special_registers.FLAGS.C =
        IF original_result # <<>>
          THEN (IF original_result[1] > 255 \/ original_result[1] < 0
                  THEN 1 ELSE 0)
          ELSE @,
     !.special_registers.FLAGS.V =
        IF original_result # <<>>
          THEN (IF original_result[1] # result THEN 1 ELSE 0)
          ELSE @]

(***************************************************************************)
(* Instruction execution engine                                            *)
(***************************************************************************)

OP_LOAD  == <<"L", "O", "A", "D">>
OP_STORE == <<"S", "T", "O", "R", "E">>
OP_MOV   == <<"M", "O", "V">>
OP_ADD   == <<"A", "D", "D">>
OP_SUB   == <<"S", "U", "B">>
OP_MUL   == <<"M", "U", "L">>
OP_INC   == <<"I", "N", "C">>
OP_DEC   == <<"D", "E", "C">>
OP_CMP   == <<"C", "M", "P">>
OP_JMP   == <<"J", "M", "P">>
OP_JZ    == <<"J", "Z">>
OP_JNZ   == <<"J", "N", "Z">>
OP_JC    == <<"J", "C">>
OP_JN    == <<"J", "N">>
OP_NOP   == <<"N", "O", "P">>

\* instruction[:instruction.index(c)] when c occurs in instruction
CutAt(instruction, k) ==
  IF k # 0 THEN SubSeq(instruction, 1, k - 1) ELSE instruction
CutComment(instruction, c) == CutAt(instruction, IndexOf(instruction, c))

\* the text left after the two comment cuts of execute_instruction
StripComment(instruction) == CutComment(CutComment(instruction, ";"), "#")

\* operands = [operand.strip() for operand in ' '.join(tokens[1:]).split(',')]
StripEach(parts) == [i \in 1..Len(parts) |-> Strip(parts[i])]
SplitOperands(tokens) ==
  IF Len(tokens) > 1 THEN StripEach(SplitOn(Join(Tail(tokens), " "), ","))
  ELSE <<>>

\* check_register: [ok |-> FALSE] stands for the ValueError
RegisterInRange(reg) ==
  IF reg < 0 \/ reg > 7
    THEN [ok |-> FALSE, val |-> reg, err |-> "Register out of bounds (0-7)"]
    ELSE [ok |-> TRUE, val |-> reg, err |-> ""]
check_register(reg_str) ==
  IF reg_str = <<>> \/ reg_str[1] # "R" \/ ~IsDigits(DropFirst(reg_str, 1), 10)
    THEN [ok |-> FALSE, val |-> 0, err |-> "Invalid register"]
    ELSE RegisterInRange(DigitsValue(DropFirst(reg_str, 1), 10))

\* check_memory
check_memory(addr) ==
  IF addr < 0 \/ addr >= 64
    THEN [ok |-> FALSE, val |-> addr, err |-> "Memory address out of bounds (0-63)"]
    ELSE [ok |-> TRUE, val |-> addr, err |-> ""]

\* outcomes of one opcode branch: an exception, an early `return True`
\* (taken jump), or falling through to the trailing IR/PC update
Raise(cs, msg) == [kind |-> "raise", cs |-> cs, err |-> msg]
Return(cs) == [kind |-> "return", cs |-> cs, err |-> ""]
Through(cs) == [kind |-> "through", cs |-> cs, err |-> ""]

BadLiteral == "invalid literal for int()"

\* a register write that stores the value without the wrap to 8 bits
WriteRegister_NoWrap(cs, reg, value, original) ==
  update_flags([cs EXCEPT !.registers[reg] = value,
                          !.modified_registers = @ \cup {reg}],
               value % 256, original)

\* cpu_state.registers[reg] = value % 256; modified_registers.add(reg);
\* update_flags(cpu_state.registers[reg], original)
WriteRegister(cs, reg, value, original) ==
  update_flags([cs EXCEPT !.registers[reg] = value % 256,
                          !.modified_registers = @ \cup {reg}],
               value % 256, original)

\* LOAD that puts the wrapped value into MDR
LoadChecked_WrappedMDR(cs, r, v) ==
  IF ~r.ok THEN Raise(cs, r.err)
  ELSE IF ~v.ok THEN Raise(cs, BadLiteral)
  ELSE Through(WriteRegister(
         [cs EXCEPT !.special_registers.MAR = cs.special_registers.PC,
                    !.special_registers.MDR = v.val % 256],
         r.val, v.val, <<>>))

\* LOAD after the operand count check: r and v are the results of
\* check_register(operands[0]) and int(operands[1], 0), in that order
LoadChecked(cs, r, v) ==
  IF ~r.ok THEN Raise(cs, r.err)
  ELSE IF ~v.ok THEN Raise(cs, BadLiteral)
  ELSE Through(WriteRegister(
         [cs EXCEPT !.special_registers.MAR = cs.special_registers.PC,
                    !.special_registers.MDR = v.val],
         r.val, v.val, <<>>))

ExecLOAD(cs, operands) ==
  IF Len(operands) # 2 THEN Raise(cs, "requires 2 operands")
  ELSE LoadChecked(cs, check_register(operands[1]), ParseInt(operands[2], 0))

\* STORE that also sets Z and N from the stored value
StoreWrite_UpdatesFlags(cs, address, value) ==
  update_flags([cs EXCEPT !.memory[address] = value,
                          !.special_registers.MAR = address,
                          !.special_registers.MDR = value,
                          !.modified_memory = @ \cup {address}],
               value, <<>>)

\* the writes of STORE
StoreWrite(cs, address, value) ==
  [cs EXCEPT !.memory[address] = value,
             !.special_registers.MAR = address,
             !.special_registers.MDR = value,
             !.modified_memory = @ \cup {address}]

\* STORE that sets MAR before the address is range-checked
StoreChecked_EarlyMAR(cs, r, a) ==
  IF ~r.ok THEN Raise(cs, r.err)
  ELSE IF ~a.ok THEN Raise(cs, BadLiteral)
  ELSE IF ~check_memory(a.val).ok
    THEN Raise([cs EXCEPT !.special_registers.MAR = a.val],
               check_memory(a.val).err)
  ELSE Through(StoreWrite(cs, a.val, cs.registers[r.val] % 256))

\* STORE after the operand count check: r and a are the results of
\* check_register(operands[0]) and int(operands[1])
StoreChecked(cs, r, a) ==
  IF ~r.ok THEN Raise(cs, r.err)
  ELSE IF ~a.ok THEN Raise(cs, BadLiteral)
  ELSE IF ~check_memory(a.val).ok THEN Raise(cs, check_memory(a.val).err)
  ELSE Through(StoreWrite(cs, a.val, cs.registers[r.val] % 256))

ExecSTORE(cs, operands) ==
  IF Len(operands) # 2 THEN Raise(cs, "requires 2 operands")
  ELSE StoreChecked(cs, check_register(operands[1]), ParseInt(operands[2], 10))

MovChecked(cs, r, s) ==
  IF ~r.ok THEN Raise(cs, r.err)
  ELSE IF ~s.ok THEN Raise(cs, s.err)
  ELSE Through(WriteRegister(cs, r.val, cs.registers[s.val], <<>>))

ExecMOV(cs, operands) ==
  IF Len(operands) # 2 THEN Raise(cs, "requires 2 operands")
  ELSE MovChecked(cs, check_register(operands[1]), check_register(operands[2]))

\* the arithmetic of ADD, SUB and MUL on two source values
Arith(op, x, y) ==
  CASE op = OP_ADD -> x + y
    [] op = OP_SUB -> x - y
    [] op = OP_MUL -> x * y

\* original = ...; registers[dest] = original % 256; update_flags(.., original)
ArithWrite(cs, dest, original) == WriteRegister(cs, dest, original, <<original>>)

\* two-operand form: reg = reg op src
Arith2Checked(cs, op, r, s) ==
  IF ~r.ok THEN Raise(cs, r.err)
  ELSE IF ~s.ok THEN Raise(cs, s.err)
  ELSE Through(ArithWrite(cs, r.val,
                          Arith(op, cs.registers[r.val], cs.registers[s.val])))

\* three-operand form: dest = src1 op src2
Arith3Checked(cs, op, d, s1, s2) ==
  IF ~d.ok THEN Raise(cs, d.err)
  ELSE IF ~s1.ok THEN Raise(cs, s1.err)
  ELSE IF ~s2.ok THEN Raise(cs, s2.err)
  ELSE Through(ArithWrite(cs, d.val,
                          Arith(op, cs.registers[s1.val], cs.registers[s2.val])))

ExecArith(cs, op, operands) ==
  IF Len(operands) = 2
    THEN Arith2Checked(cs, op, check_register(operands[1]),
                       check_register(operands[2]))
  ELSE IF Len(operands) = 3
    THEN Arith3Checked(cs, op, check_register(operands[1]),
                       check_register(operands[2]), check_register(operands[3]))
  ELSE Raise(cs, "requires 2 or 3 operands")

\* INC (delta = 1) and DEC (delta = -1)
IncDecChecked(cs, r, delta) ==
  IF ~r.ok THEN Raise(cs, r.err)
  ELSE Through(ArithWrite(cs, r.val, cs.registers[r.val] + delta))

ExecIncDec(cs, operands, delta) ==
  IF Len(operands) # 1 THEN Raise(cs, "requires 1 operand")
  ELSE IncDecChecked(cs, check_register(operands[1]), delta)

\* result = registers[reg1] - registers[reg2]; update_flags(result % 256, result)
CmpFlags(cs, result) == update_flags(cs, result % 256, <<result>>)

\* CMP that keeps the difference in its first register, as SUB does
CmpChecked_WritesResult(cs, r1, r2) ==
  IF ~r1.ok THEN Raise(cs, r1.err)
  ELSE IF ~r2.ok THEN Raise(cs, r2.err)
  ELSE Through(ArithWrite(cs, r1.val,
                          cs.registers[r1.val] - cs.registers[r2.val]))

CmpChecked(cs, r1, r2) ==
  IF ~r1.ok THEN Raise(cs, r1.err)
  ELSE IF ~r2.ok THEN Raise(cs, r2.err)
  ELSE Through(CmpFlags(cs, cs.registers[r1.val] - cs.registers[r2.val]))

ExecCMP(cs, operands) ==
  IF Len(operands) # 2 THEN Raise(cs, "requires 2 operands")
  ELSE CmpChecked(cs, check_register(operands[1]), check_register(operands[2]))

\* the body of a taken jump: t is the result of int(operands[0])
JumpTo(cs, instruction, t) ==
  IF ~t.ok THEN Raise(cs, BadLiteral)
  ELSE Return([cs EXCEPT !.special_registers.PC = t.val,
                         !.current_line = t.val,
                         !.special_registers.IR = instruction])

\* a jump that is taken whatever the flag test says
ExecJump_AlwaysTaken(cs, operands, instruction, taken) ==
  IF Len(operands) # 1 THEN Raise(cs, "requires 1 operand")
  ELSE JumpTo(cs, instruction, ParseInt(operands[1], 10))

\* JMP (taken = TRUE) and JZ/JNZ/JC/JN (taken = the flag test); the target
\* is parsed only when the jump is taken
ExecJump(cs, operands, instruction, taken) ==
  IF Len(operands) # 1 THEN Raise(cs, "requires 1 operand")
  ELSE IF taken THEN JumpTo(cs, instruction, ParseInt(operands[1], 10))
  ELSE Through(cs)

\* the if/elif chain over the opcode
Dispatch(cs, instruction, op, operands) ==
  CASE op = OP_LOAD -> ExecLOAD(cs, operands)
    [] op = OP_STORE -> ExecSTORE(cs, operands)
    [] op = OP_MOV -> ExecMOV(cs, operands)
    [] op \in {OP_ADD, OP_SUB, OP_MUL} -> ExecArith(cs, op, operands)
    [] op = OP_INC -> ExecIncDec(cs, operands, 1)
    [] op = OP_DEC -> ExecIncDec(cs, operands, 0 - 1)
    [] op = OP_CMP -> ExecCMP(cs, operands)
    [] op = OP_JMP -> ExecJump(cs, operands, instruction, TRUE)
    [] op = OP_JZ ->
         ExecJump(cs, operands, instruction, cs.special_registers.FLAGS.Z = 1)
    [] op = OP_JNZ ->
         ExecJump(cs, operands, instruction, cs.special_registers.FLAGS.Z = 0)
    [] op = OP_JC ->
         ExecJump(cs, operands, instruction, cs.special_registers.FLAGS.C = 1)
    [] op = OP_JN ->
         ExecJump(cs, operands, instruction, cs.special_registers.FLAGS.N = 1)
    [] op = OP_NOP -> Through(cs)
    [] op[1] \in {";", "#"} -> Through(cs)
    [] OTHER -> Raise(cs, "Unknown instruction")

\* an end of execute_instruction that increments PC after a taken jump too
Finish_IncrementAfterJump(instruction, out) ==
  CASE out.kind = "raise" ->
         [ok |-> FALSE, cs |-> out.cs, err |-> out.err, path |-> "raise"]
    [] out.kind = "return" ->
         [ok |-> TRUE,
          cs |-> [out.cs EXCEPT !.special_registers.PC = @ + 1],
          err |-> "", path |-> "return"]
    [] OTHER ->
         [ok |-> TRUE,
          cs |-> [out.cs EXCEPT !.special_registers.IR = instruction,
                                !.special_registers.PC = @ + 1],
          err |-> "", path |-> "through"]

\* an except branch that moves current_line past the failing line
Finish_FailureAdvancesLine(instruction, out) ==
  CASE out.kind = "raise" ->
         [ok |-> FALSE, cs |-> [out.cs EXCEPT !.current_line = @ + 1],
          err |-> out.err, path |-> "raise"]
    [] out.kind = "return" ->
         [ok |-> TRUE, cs |-> out.cs, err |-> "", path |-> "return"]
    [] OTHER ->
         [ok |-> TRUE,
          cs |-> [out.cs EXCEPT !.special_registers.IR = instruction,
                                !.special_registers.PC = @ + 1],
          err |-> "", path |-> "through"]

\* the end of execute_instruction: the except branch, the `return True` of
\* a taken jump, or the trailing IR/PC update
Finish(instruction, out) ==
  CASE out.kind = "raise" ->
         [ok |-> FALSE, cs |-> out.cs, err |-> out.err, path |-> "raise"]
    [] out.kind = "return" ->
         [ok |-> TRUE, cs |-> out.cs, err |-> "", path |-> "return"]
    [] OTHER ->
         [ok |-> TRUE,
          cs |-> [out.cs EXCEPT !.special_registers.IR = instruction,
                                !.special_registers.PC = @ + 1],
          err |-> "", path |-> "through"]

\* execute_instruction from `tokens = instruction.strip().split()` on
ExecuteTokens(cs, instruction, tokens) ==
  IF Len(tokens) < 1
    THEN [ok |-> TRUE, cs |-> cs, err |-> "", path |-> "skip"]
    ELSE Finish(instruction,
                Dispatch(cs, instruction, Upper(tokens[1]), SplitOperands(tokens)))

ExecuteStripped(cs, instruction) ==
  ExecuteTokens(cs, instruction, SplitWS(Strip(instruction)))

\* execute_instruction: [ok |-> return value, cs |-> cpu_state afterwards,
\* err |-> text of the error dialog ("" when none), path |-> the way out:
\* "skip" (no token), "raise" (except branch), "return" (the `return True`
\* of a taken jump) or "through" (the trailing IR/PC update)]
execute_instruction(cpu, raw) ==
  ExecuteStripped([cpu EXCEPT !.modified_registers = {}, !.modified_memory = {}],
                  StripComment(raw))

(***************************************************************************)
(* Controller: Step All (Run-all), Next (Follow-PC), Reset, Undo, Redo     *)
(*                                                                         *)
(* The handlers run on the single Tk event thread.  The two loops are      *)
(* taken one iteration at a time (pc names the handler whose loop is       *)
(* running) and no other handler starts while pc is not "idle".            *)
(***************************************************************************)

\* the size limit of the undo history in save_state
HistoryLimit == 50

\* max_iterations of on_next
max_iterations == 1000

\* instruction_entry.get("1.0", tk.END).strip().split('\n')
GetInstructions(text) == SplitOn(Strip(text), "\n")

instructions == GetInstructions(instruction_entry)

\* the line filter of both loops: stripped line non-empty and not starting
\* with ';' or '#'
IsCode(line) == Strip(line) # <<>> /\ Strip(line)[1] \notin {";", "#"}

\* Python list indexing with a possibly negative index (0-based); the
\* caller makes sure that -Len(list) <= i < Len(list)
PyIndex(list, i) == IF i >= 0 THEN list[i + 1] ELSE list[Len(list) + i + 1]

\* what the last loop iteration handed to execute_instruction, and what came
\* back; NoCall when the iteration executed nothing
NoCall == [op |-> "none", instruction |-> <<>>, line_num |-> 0,
           ok |-> TRUE, path |-> "none"]

Called(instruction, line_num, r) ==
  [op |-> "execute_instruction", instruction |-> instruction,
   line_num |-> line_num, ok |-> r.ok, path |-> r.path]

\* the dialog a handler showed last (messagebox.showerror / showwarning /
\* showinfo); errors are the lines of the Verify dialog
NoDialog == [title |-> "", line |-> 0, text |-> "", errors |-> <<>>]

ExecutionError(line_num, err) ==
  [title |-> "Execution Error", line |-> line_num + 1, text |-> err,
   errors |-> <<>>]

ExecutionStopped ==
  [title |-> "Execution Stopped", line |-> 0,
   text |-> "Maximum iterations reached. Possible infinite loop.",
   errors |-> <<>>]

\* a history that is never trimmed
Evict_Never(h) == h

\* save_state: the undo history after the call (redo_stack is cleared by
\* the actions that use it)
Evict(h) == IF Len(h) > HistoryLimit THEN Tail(h) ELSE h

\* a save that pushes the snapshot twice
save_state_PushesTwice(history, cs) ==
  Evict(Append(Append(history, copy(cs)), copy(cs)))

save_state(history, cs) == Evict(Append(history, copy(cs)))

\* load_program: the editor buffer is replaced by the content of a file
load_program(content) ==
  /\ pc = "idle"
  /\ instruction_entry # content
  /\ instruction_entry' = content
  /\ UNCHANGED <<cpu_state, state_history, redo_stack, pc, loop_i, iterations,
                 call, messagebox>>

\* on_step, up to the loop
on_step_enter ==
  /\ pc = "idle"
  /\ state_history' = save_state(state_history, cpu_state)
  /\ redo_stack' = <<>>
  /\ pc' = "on_step"
  /\ loop_i' = 0
  /\ call' = NoCall
  /\ messagebox' = NoDialog
  /\ UNCHANGED <<cpu_state, instruction_entry, iterations>>

\* a Run-all loop that goes on at the line a taken jump names
on_step_iter_FollowsJumps ==
  /\ pc = "on_step"
  /\ loop_i < Len(instructions)
  /\ \E instruction \in {instructions[loop_i + 1]} :
        IF IsCode(instruction)
          THEN \E r \in {execute_instruction(
                          [cpu_state EXCEPT
                             !.instruction_history = Append(@, Strip(instruction)),
                             !.animation_active = TRUE],
                          instruction)} :
                  /\ cpu_state' = r.cs
                  /\ call' = Called(instruction, loop_i, r)
                  /\ messagebox' = IF r.ok THEN messagebox
                                   ELSE ExecutionError(loop_i, r.err)
                  /\ loop_i' = IF r.path = "return"
                                 /\ r.cs.special_registers.PC \in 0..Len(instructions)
                                 /\ Len(cpu_state.instruction_history) < 8
                               THEN r.cs.special_registers.PC
                               ELSE loop_i + 1
          ELSE /\ call' = NoCall
               /\ loop_i' = loop_i + 1
               /\ UNCHANGED <<cpu_state, messagebox>>
  /\ UNCHANGED <<state_history, redo_stack, instruction_entry, pc, iterations>>

\* on_step, one iteration of `for i, instruction in enumerate(instructions)`;
\* the value execute_instruction returns is not looked at
on_step_iter ==
  /\ pc = "on_step"
  /\ loop_i < Len(instructions)
  /\ \E instruction \in {instructions[loop_i + 1]} :
        IF IsCode(instruction)
          THEN \E r \in {execute_instruction(
                          [cpu_state EXCEPT
                             !.instruction_history = Append(@, Strip(instruction)),
                             !.animation_active = TRUE],
                          instruction)} :
                  /\ cpu_state' = r.cs
                  /\ call' = Called(instruction, loop_i, r)
                  /\ messagebox' = IF r.ok THEN messagebox
                                   ELSE ExecutionError(loop_i, r.err)
          ELSE /\ call' = NoCall
               /\ UNCHANGED <<cpu_state, messagebox>>
  /\ loop_i' = loop_i + 1
  /\ UNCHANGED <<state_history, redo_stack, instruction_entry, pc, iterations>>

\* on_step, after the loop (update_gui only reads the state)
on_step_exit ==
  /\ pc = "on_step"
  /\ loop_i >= Len(instructions)
  /\ pc' = "idle"
  /\ call' = NoCall
  /\ UNCHANGED <<cpu_state, state_history, redo_stack, instruction_entry,
                 loop_i, iterations, messagebox>>

\* on_next, up to the loop
on_next_enter ==
  /\ pc = "idle"
  /\ state_history' = save_state(state_history, cpu_state)
  /\ redo_stack' = <<>>
  /\ pc' = "on_next"
  /\ iterations' = 0
  /\ call' = NoCall
  /\ messagebox' = NoDialog
  /\ UNCHANGED <<cpu_state, instruction_entry, loop_i>>

\* a loop condition without the iteration cap
LoopCondition_NoCap == cpu_state.current_line < Len(instructions)

\* the loop condition of on_next
LoopCondition ==
  cpu_state.current_line < Len(instructions) /\ iterations < max_iterations

\* on_next, one pass through the body of the while loop
on_next_iter ==
  /\ pc = "on_next"
  /\ LoopCondition
  /\ IF cpu_state.current_line < 0 - Len(instructions)
       THEN \* instructions[current_line] raises IndexError: the handler ends
            /\ pc' = "idle"
            /\ call' = [NoCall EXCEPT !.op = "IndexError"]
            /\ UNCHANGED <<cpu_state, iterations, messagebox>>
       ELSE
         \E instruction \in
              {Strip(PyIndex(instructions, cpu_state.current_line))} :
            IF instruction # <<>> /\ instruction[1] \notin {";", "#"}
              THEN
                \E r \in {execute_instruction(
                           [cpu_state EXCEPT
                              !.instruction_history = Append(@, instruction),
                              !.animation_active = TRUE],
                           instruction)} :
                   /\ call' = Called(instruction, cpu_state.current_line, r)
                   /\ IF ~r.ok
                        THEN \* break; iterations < max_iterations here
                             /\ cpu_state' = r.cs
                             /\ messagebox' =
                                  ExecutionError(cpu_state.current_line, r.err)
                             /\ pc' = "idle"
                             /\ UNCHANGED iterations
                        ELSE IF r.cs.current_line # r.cs.special_registers.PC
                          THEN \* adopt PC and continue
                               /\ cpu_state' =
                                    [r.cs EXCEPT !.current_line =
                                                   r.cs.special_registers.PC]
                               /\ UNCHANGED <<iterations, messagebox, pc>>
                          ELSE /\ cpu_state' =
                                    [r.cs EXCEPT !.current_line = @ + 1]
                               /\ iterations' = iterations + 1
                               /\ UNCHANGED <<messagebox, pc>>
              ELSE /\ cpu_state' = [cpu_state EXCEPT !.current_line = @ + 1]
                   /\ iterations' = iterations + 1
                   /\ call' = NoCall
                   /\ UNCHANGED <<messagebox, pc>>
  /\ UNCHANGED <<state_history, redo_stack, instruction_entry, loop_i>>

\* on_next, after the loop
on_next_exit ==
  /\ pc = "on_next"
  /\ ~LoopCondition
  /\ messagebox' = IF iterations >= max_iterations THEN ExecutionStopped
                   ELSE messagebox
  /\ pc' = "idle"
  /\ call' = NoCall
  /\ UNCHANGED <<cpu_state, state_history, redo_stack, instruction_entry,
                 loop_i, iterations>>

\* a reset that re-initializes the CPU state before it takes the snapshot
on_reset_ResetsFirst ==
  /\ pc = "idle"
  /\ cpu_state' = CPUState
  /\ state_history' = save_state(state_history, cpu_state')
  /\ redo_stack' = <<>>
  /\ call' = NoCall
  /\ messagebox' = NoDialog
  /\ UNCHANGED <<instruction_entry, pc, loop_i, iterations>>

\* a reset that leaves the redo stack as it is
on_reset_KeepsRedo ==
  /\ pc = "idle"
  /\ state_history' = save_state(state_history, cpu_state)
  /\ cpu_state' = CPUState
  /\ call' = NoCall
  /\ messagebox' = NoDialog
  /\ UNCHANGED <<redo_stack, instruction_entry, pc, loop_i, iterations>>

on_reset ==
  /\ pc = "idle"
  /\ state_history' = save_state(state_history, cpu_state)
  /\ redo_stack' = <<>>
  /\ cpu_state' = CPUState
  /\ call' = NoCall
  /\ messagebox' = NoDialog
  /\ UNCHANGED <<instruction_entry, pc, loop_i, iterations>>

\* on_undo: the current state, the undo history and the redo stack after
\* the handler has run with a non-empty undo history
UndoResult(cs, history, redo) ==
  [cpu_state |-> history[Len(history)],
   state_history |-> SubSeq(history, 1, Len(history) - 1),
   redo_stack |-> Append(redo, copy(cs))]

on_undo ==
  /\ pc = "idle"
  /\ state_history # <<>>
  /\ \E u \in {UndoResult(cpu_state, state_history, redo_stack)} :
        /\ redo_stack' = u.redo_stack
        /\ cpu_state' = u.cpu_state
        /\ state_history' = u.state_history
  /\ call' = NoCall
  /\ messagebox' = NoDialog
  /\ UNCHANGED <<instruction_entry, pc, loop_i, iterations>>

\* a redo that forgets to put the current state onto the undo history
RedoResult_NoPush(cs, history, redo) ==
  [cpu_state |-> redo[Len(redo)],
   state_history |-> history,
   redo_stack |-> SubSeq(redo, 1, Len(redo) - 1)]

\* on_redo: the same after the handler has run with a non-empty redo stack
RedoResult(cs, history, redo) ==
  [cpu_state |-> redo[Len(redo)],
   state_history |-> Append(history, copy(cs)),
   redo_stack |-> SubSeq(redo, 1, Len(redo) - 1)]

on_redo ==
  /\ pc = "idle"
  /\ redo_stack # <<>>
  /\ \E u \in {RedoResult(cpu_state, state_history, redo_stack)} :
        /\ state_history' = u.state_history
        /\ cpu_state' = u.cpu_state
        /\ redo_stack' = u.redo_stack
  /\ call' = NoCall
  /\ messagebox' = NoDialog
  /\ UNCHANGED <<instruction_entry, pc, loop_i, iterations>>

(***************************************************************************)
(* Program texts                                                           *)
(***************************************************************************)

\* decimal text of a natural number
RECURSIVE DecStr(_)
DigitChar(d) == <<"0", "1", "2", "3", "4", "5", "6", "7", "8", "9">>[d + 1]
DecStr(n) ==
  IF n < 10 THEN <<DigitChar(n)>>
  ELSE DecStr(n \div 10) \o <<DigitChar(n % 10)>>

\* decimal text of an integer
IntStr(n) == IF n < 0 THEN <<"-">> \o DecStr(0 - n) ELSE DecStr(n)

\* the register token Rn
RegName(n) == <<"R">> \o DecStr(n)

\* instruction lines with no, one, two and three operands
Instr1(op, a) == op \o <<" ">> \o a
Instr2(op, a, b) == op \o <<" ">> \o a \o <<",">> \o b
Instr3(op, a, b, c) == op \o <<" ">> \o a \o <<",">> \o b \o <<",">> \o c

\* a buffer of the editor: the lines, each ended by a newline
Text(lines) == Join(lines, "\n") \o <<"\n">>

\* example_program, the text the editor holds at start-up
example_program ==
  Text(<<
    <<>>,
    <<>>,
    <<"L", "O", "A", "D", " ", "R", "0", ",", "1", "0", " ", " ", " ", " ", " ", " ", " ">>,
    <<"S", "T", "O", "R", "E", " ", "R", "0", ",", "1", "0", " ", " ", " ", " ">>,
    <<"L", "O", "A", "D", " ", "R", "1", ",", "2", "0", " ", " ", " ", " ", " ", " ", " ">>,
    <<"S", "T", "O", "R", "E", " ", "R", "1", ",", "1", "1", " ", " ", " ", " ">>,
    <<"L", "O", "A", "D", " ", "R", "2", ",", "3", "0", " ", " ", " ", " ", " ", " ">>,
    <<"S", "T", "O", "R", "E", " ", "R", "2", ",", "2", "2">>,
    <<>>,
    <<"L", "O", "A", "D", " ", "R", "3", ",", "1", "0", " ", " ", " ", " ", " ", " ", " ">>,
    <<"L", "O", "A", "D", " ", "R", "4", ",", "1", "1", " ", " ", " ", " ", " ", " ">>,
    <<"A", "D", "D", " ", "R", "5", ",", "R", "3", ",", "R", "4", " ", " ", " ", " ">>,
    <<"S", "T", "O", "R", "E", " ", "R", "5", ",", "3", "7", " ", " ", " ">>,
    <<>>,
    <<>>,
    <<"L", "O", "A", "D", " ", "R", "6", ",", "0", " ", " ", " ", " ", " ", " ", " ">>,
    <<"L", "O", "A", "D", " ", "R", "7", ",", "5", " ", " ", " ", " ", " ", " ", " ", " ", " ">>,
    <<>>,
    <<"I", "N", "C", " ", "R", "6", " ", " ", " ", " ", " ", " ", " ", " ", " ", " ", " ">>,
    <<"C", "M", "P", " ", "R", "6", ",", "R", "7", " ", " ", " ", " ", " ", " ", " ">>,
    <<"J", "N", "Z", " ", "1", "9", " ", " ", " ", " ", " ", " ", " ", " ", " ", " ", " ", " ", " ">>,
    <<"S", "T", "O", "R", "E", " ", "R", "6", ",", "1", "0", " ", " ">> >>)

(***************************************************************************)
(* Spec: the simulator driven through its buttons                          *)
(***************************************************************************)

\* the number of undo snapshots up to which the model takes new actions
MaxSnapshots == 2

ProgArith ==
  Text(<<Instr2(OP_LOAD, RegName(0), IntStr(200)),
         Instr2(OP_LOAD, RegName(1), IntStr(100)),
         Instr2(OP_ADD, RegName(0), RegName(1)),
         Instr2(OP_STORE, RegName(0), IntStr(5))>>)

ProgJump ==
  Text(<<Instr1(OP_JMP, IntStr(2)),
         Instr1(OP_INC, RegName(0)),
         Instr1(OP_DEC, RegName(1))>>)

ProgError ==
  Text(<<Instr2(OP_LOAD, RegName(2), IntStr(300)),
         Instr2(OP_STORE, RegName(8), IntStr(5)),
         Instr1(OP_INC, RegName(2))>>)

\* a backward jump at line 3 with a line after it
ProgJumpBack ==
  Text(<<Instr1(OP_INC, RegName(0)),
         <<>>,
         <<";", " ", "b", "a", "c", "k">>,
         Instr1(OP_JMP, IntStr(0)),
         Instr1(OP_INC, RegName(1))>>)

Programs == {example_program, ProgArith, ProgJump, ProgError}

Init ==
  /\ cpu_state = CPUState
  /\ state_history = <<>>
  /\ redo_stack = <<>>
  /\ instruction_entry = example_program
  /\ pc = "idle"
  /\ loop_i = 0
  /\ iterations = 0
  /\ call = NoCall
  /\ messagebox = NoDialog

CanSave == Len(state_history) < MaxSnapshots

Next ==
  \/ \E content \in Programs : load_program(content)
  \/ (CanSave /\ on_step_enter)
  \/ on_step_iter
  \/ on_step_exit
  \/ (CanSave /\ on_next_enter)
  \/ on_next_iter
  \/ on_next_exit
  \/ (CanSave /\ on_reset)
  \/ on_undo
  \/ on_redo

Spec == Init /\ [][Next]_vars

\* C1: after any sequence of instruction executions, Run-all, Follow-PC,
\* reset, undo and redo from the initial state, the machine has exactly 8
\* registers and 64 memory cells and each holds an integer in [0,255]
C1_EightBitState ==
  /\ DOMAIN cpu_state.registers = 0..7
  /\ DOMAIN cpu_state.memory = 0..63
  /\ \A i \in 0..7 : cpu_state.registers[i] \in 0..255
  /\ \A i \in 0..63 : cpu_state.memory[i] \in 0..255

\* C1 witness: an undo has brought back the state in which 200 + 100 had
\* wrapped to 44 in R0 and been stored to memory cell 5
C1_Witness ==
  /\ pc = "idle"
  /\ redo_stack # <<>>
  /\ cpu_state.registers[0] = 44
  /\ cpu_state.memory[5] = 44

(***************************************************************************)
(* SpecArith: Run-all of every program `LOAD Ra,a / LOAD Rb,b / ADD Ra,Rb`  *)
(* and `LOAD Rn,r / INC Rn`, `LOAD Rn,r / DEC Rn` over all 8-bit values     *)
(***************************************************************************)

LoadLine(reg, imm) == Instr2(OP_LOAD, RegName(reg), IntStr(imm))
AddLine(ra, rb) == Instr2(OP_ADD, RegName(ra), RegName(rb))
IncLine(reg) == Instr1(OP_INC, RegName(reg))
DecLine(reg) == Instr1(OP_DEC, RegName(reg))

\* the register pairs (Ra, Rb) of the ADD programs
AddPairs == {<<0, 1>>, <<7, 2>>, <<3, 3>>}

\* the registers of the INC and DEC programs
IncDecRegs == {0, 5}

AddProgram(ra, rb, a, b) ==
  Text(<<LoadLine(ra, a), LoadLine(rb, b), AddLine(ra, rb)>>)

ArithPrograms ==
  {AddProgram(0, 1, a, b) : a \in 0..255, b \in 0..255}
    \cup {AddProgram(7, 2, a, b) : a \in {0, 1, 255}, b \in {0, 1, 255}}
    \cup {AddProgram(3, 3, a, a) : a \in 0..255}
    \cup {Text(<<LoadLine(r, v), IncLine(r)>>) : r \in IncDecRegs, v \in 0..255}
    \cup {Text(<<LoadLine(r, v), DecLine(r)>>) : r \in IncDecRegs, v \in 0..255}

InitArith ==
  /\ cpu_state = CPUState
  /\ state_history = <<>>
  /\ redo_stack = <<>>
  /\ instruction_entry \in ArithPrograms
  /\ pc = "idle"
  /\ loop_i = 0
  /\ iterations = 0
  /\ call = NoCall
  /\ messagebox = NoDialog

NextArith ==
  \/ (state_history = <<>> /\ on_step_enter)
  \/ on_step_iter
  \/ on_step_exit

SpecArith == InitArith /\ [][NextArith]_vars

\* the line handed to execute_instruction in the step just taken
Executed(line) == call'.op = "execute_instruction" /\ call'.instruction = line

\* C2: for all a, b in [0,255], ADD Ra,Rb in a state where Ra holds a and Rb
\* holds b leaves Ra = (a+b) mod 256 and sets C = 1 exactly when a+b > 255
C2_AddWrapsAndCarries ==
  [][\A p \in AddPairs :
       Executed(AddLine(p[1], p[2])) =>
         /\ cpu_state.registers[p[1]] \in 0..255
         /\ cpu_state.registers[p[2]] \in 0..255
         /\ cpu_state'.registers[p[1]] =
              (cpu_state.registers[p[1]] + cpu_state.registers[p[2]]) % 256
         /\ cpu_state'.special_registers.FLAGS.C =
              (IF cpu_state.registers[p[1]] + cpu_state.registers[p[2]] > 255
                 THEN 1 ELSE 0)]_vars

\* C2 witness: ADD R0,R1 has run on 200 and 100: R0 = 44 with the carry set
C2_Witness ==
  /\ call.op = "execute_instruction"
  /\ call.instruction = AddLine(0, 1)
  /\ cpu_state.registers[1] = 100
  /\ cpu_state.registers[0] = 44
  /\ cpu_state.special_registers.FLAGS.C = 1

\* C4: for every r in [0,255], DEC Rn leaves Rn = (r-1) mod 256 with C = 1
\* exactly when r = 0, and INC Rn leaves Rn = (r+1) mod 256 with C = 1 exactly
\* when r = 255
C4_IncDecWrapAndCarry ==
  [][\A n \in IncDecRegs :
       /\ Executed(DecLine(n)) =>
            /\ cpu_state.registers[n] \in 0..255
            /\ cpu_state'.registers[n] = (cpu_state.registers[n] - 1) % 256
            /\ cpu_state'.special_registers.FLAGS.C =
                 (IF cpu_state.registers[n] = 0 THEN 1 ELSE 0)
       /\ Executed(IncLine(n)) =>
            /\ cpu_state.registers[n] \in 0..255
            /\ cpu_state'.registers[n] = (cpu_state.registers[n] + 1) % 256
            /\ cpu_state'.special_registers.FLAGS.C =
                 (IF cpu_state.registers[n] = 255 THEN 1 ELSE 0)]_vars

\* C4 witness: DEC R5 has run on 0 (the program `LOAD R5,0 / DEC R5`):
\* R5 = 255 with the carry set
C4_Witness ==
  /\ call.op = "execute_instruction"
  /\ call.instruction = DecLine(5)
  /\ instruction_entry = Text(<<LoadLine(5, 0), DecLine(5)>>)
  /\ cpu_state.registers[5] = 255
  /\ cpu_state.special_registers.FLAGS.C = 1

(***************************************************************************)
(* SpecExec: Run-all of four-line programs `LOAD R0,v / STORE R0,9 /        *)
(* <flag setter> / <line under test>`, the line under test ranging over     *)
(* loads, failing lines, jumps and the other opcodes                        *)
(***************************************************************************)

JumpLine(op, t) == Instr1(op, IntStr(t))

\* immediates of the LOAD lines under test
LoadImmediates == {0 - 300, 0 - 1, 0, 44, 255, 256, 300, 1000}

\* LOAD lines with the register and the immediate they name; the last two
\* write 300 as a hexadecimal and as a signed literal
LoadCases ==
  {[line |-> LoadLine(r, i), reg |-> r, imm |-> i] :
     r \in {0, 7}, i \in LoadImmediates}
  \cup {[line |-> <<"L", "O", "A", "D", " ", "R", "1", ",", "0", "x", "1", "2", "C">>,
         reg |-> 1, imm |-> 300],
        [line |-> <<"L", "O", "A", "D", " ", "R", "6", ",", " ", "+", "3", "0", "0">>,
         reg |-> 6, imm |-> 300]}

\* lines with an unknown opcode: FOO R0,1 / LOADX R0,1
UnknownOpcodeLines ==
  {<<"F", "O", "O", " ", "R", "0", ",", "1">>,
   <<"L", "O", "A", "D", "X", " ", "R", "0", ",", "1">>}

\* lines with a wrong operand count
OperandCountLines ==
  {<<"L", "O", "A", "D", " ", "R", "0">>,
   <<"S", "T", "O", "R", "E", " ", "R", "0", ",", "1", ",", "2">>,
   <<"M", "O", "V", " ", "R", "0">>,
   <<"A", "D", "D", " ", "R", "0">>,
   <<"A", "D", "D", " ", "R", "0", ",", "R", "1", ",", "R", "2", ",", "R", "3">>,
   <<"I", "N", "C">>,
   <<"D", "E", "C", " ", "R", "0", ",", "R", "1">>,
   <<"C", "M", "P", " ", "R", "0", ",", "R", "1", ",", "R", "2">>,
   <<"J", "M", "P">>,
   <<"J", "Z", " ", "1", ",", "2">>}

\* lines with a register index outside [0,7]
RegisterRangeLines ==
  {<<"S", "T", "O", "R", "E", " ", "R", "8", ",", "5">>,
   <<"L", "O", "A", "D", " ", "R", "9", ",", "1">>,
   <<"I", "N", "C", " ", "R", "8">>,
   <<"M", "O", "V", " ", "R", "0", ",", "R", "8">>,
   <<"A", "D", "D", " ", "R", "0", ",", "R", "1", ",", "R", "9">>,
   <<"C", "M", "P", " ", "R", "8", ",", "R", "0">>}

\* lines with a memory address outside [0,63]
MemoryRangeLines ==
  {<<"S", "T", "O", "R", "E", " ", "R", "0", ",", "6", "4">>,
   <<"S", "T", "O", "R", "E", " ", "R", "0", ",", "-", "1">>}

\* lines with a malformed number or register token
MalformedNumberLines ==
  {<<"L", "O", "A", "D", " ", "R", "0", ",", "1", "e", "2">>,
   <<"L", "O", "A", "D", " ", "R", "0", ",", "0", "1", "0">>,
   <<"S", "T", "O", "R", "E", " ", "R", "0", ",", "0", "x", "1", "0">>,
   <<"S", "T", "O", "R", "E", " ", "R", "0", ",", "a", "b", "c">>,
   <<"J", "M", "P", " ", "a", "b", "c">>,
   <<"J", "M", "P", " ", "0", "x", "3">>,
   <<"L", "O", "A", "D", " ", "r", "0", ",", "5">>,
   <<"I", "N", "C", " ", "5">>}

FailLines ==
  UnknownOpcodeLines \cup OperandCountLines \cup RegisterRangeLines
    \cup MemoryRangeLines \cup MalformedNumberLines

ConditionalJumps == {OP_JZ, OP_JNZ, OP_JC, OP_JN}

JumpTargets == {0 - 2, 0, 3, 12}

JumpLines ==
  {JumpLine(op, t) : op \in ConditionalJumps \cup {OP_JMP}, t \in JumpTargets}

OtherLines ==
  {OP_NOP,
   Instr2(OP_STORE, RegName(0), IntStr(63)),
   Instr2(OP_MOV, RegName(5), RegName(0)),
   Instr2(OP_SUB, RegName(1), RegName(0)),
   Instr2(OP_MUL, RegName(0), RegName(0)),
   Instr2(OP_CMP, RegName(0), RegName(1)),
   Instr3(OP_ADD, RegName(6), RegName(0), RegName(1))}

TestLines == {c.line : c \in LoadCases} \cup FailLines \cup JumpLines \cup OtherLines

\* the third line of a program: it leaves the flags in different settings
FlagSetters ==
  {IncLine(1), DecLine(1), AddLine(0, 0),
   Instr2(OP_CMP, RegName(3), RegName(3)),
   Instr2(OP_MOV, RegName(4), RegName(0))}

ExecPrograms ==
  {Text(<<LoadLine(0, v), Instr2(OP_STORE, RegName(0), IntStr(9)), f, t>>) :
     v \in {0, 200}, f \in FlagSetters, t \in TestLines}

InitExec ==
  /\ cpu_state = CPUState
  /\ state_history = <<>>
  /\ redo_stack = <<>>
  /\ instruction_entry \in ExecPrograms
  /\ pc = "idle"
  /\ loop_i = 0
  /\ iterations = 0
  /\ call = NoCall
  /\ messagebox = NoDialog

NextExec ==
  \/ (state_history = <<>> /\ on_step_enter)
  \/ on_step_iter
  \/ on_step_exit

SpecExec == InitExec /\ [][NextExec]_vars

\* registers, memory and the four flags are the same before and after a step
SameDataAndFlags ==
  /\ cpu_state'.registers = cpu_state.registers
  /\ cpu_state'.memory = cpu_state.memory
  /\ cpu_state'.special_registers.FLAGS = cpu_state.special_registers.FLAGS

\* C3: for every integer immediate imm, LOAD Rn,imm sets Rn = imm mod 256,
\* MDR = imm unwrapped, and MAR to the value PC had before the instruction
C3_LoadWrapsRegisterNotMDR ==
  [][\A c \in LoadCases :
       Executed(c.line) =>
         /\ call'.ok
         /\ cpu_state'.registers[c.reg] = c.imm % 256
         /\ cpu_state'.special_registers.MDR = c.imm
         /\ cpu_state'.special_registers.MAR = cpu_state.special_registers.PC]_vars

\* C3 witness: LOAD R0,300 has run with PC = 3: R0 = 44, MDR = 300, MAR = 3
C3_Witness ==
  /\ call.op = "execute_instruction"
  /\ call.instruction = LoadLine(0, 300)
  /\ cpu_state.registers[0] = 44
  /\ cpu_state.special_registers.MDR = 300
  /\ cpu_state.special_registers.MAR = 3
  /\ cpu_state.special_registers.PC = 4

\* C5: whenever the execution of a line fails (unknown opcode, wrong operand
\* count, register index outside [0,7], memory address outside [0,63],
\* malformed number) it reports failure, and registers, memory, PC, IR, MAR,
\* MDR, the four flags and current_line are exactly as before the instruction
C5_FailureLeavesStateUnchanged ==
  [][(call'.op = "execute_instruction"
        /\ (call'.instruction \in FailLines \/ ~call'.ok)) =>
       /\ ~call'.ok
       /\ messagebox'.title = "Execution Error"
       /\ cpu_state'.registers = cpu_state.registers
       /\ cpu_state'.memory = cpu_state.memory
       /\ cpu_state'.special_registers = cpu_state.special_registers
       /\ cpu_state'.current_line = cpu_state.current_line]_vars

\* C5 witness: STORE R8,5 has failed in a state with R0 = 200, memory cell 9
\* and flags set by earlier instructions
C5_Witness ==
  /\ call.op = "execute_instruction"
  /\ call.instruction = Instr2(OP_STORE, RegName(8), IntStr(5))
  /\ ~call.ok
  /\ messagebox = ExecutionError(3, "Register out of bounds (0-7)")
  /\ cpu_state.registers[0] = 200
  /\ cpu_state.memory[9] = 200
  /\ cpu_state.special_registers.FLAGS.N = 1
  /\ cpu_state.special_registers.PC = 3

\* the flag test of a conditional jump
FlagTest(op, F) ==
  CASE op = OP_JZ -> F.Z = 1
    [] op = OP_JNZ -> F.Z = 0
    [] op = OP_JC -> F.C = 1
    [] op = OP_JN -> F.N = 1

\* C6: a conditional jump whose flag test does not hold leaves PC equal to
\* its value before the instruction plus exactly 1, leaves current_line
\* alone, and changes no register, memory cell or flag
C6_UntakenJumpFallsThrough ==
  [][\A op \in ConditionalJumps, t \in JumpTargets :
       (Executed(JumpLine(op, t))
          /\ ~FlagTest(op, cpu_state.special_registers.FLAGS)) =>
         /\ call'.ok
         /\ cpu_state'.special_registers.PC = cpu_state.special_registers.PC + 1
         /\ cpu_state'.current_line = cpu_state.current_line
         /\ SameDataAndFlags]_vars

\* C6 witness: JZ 12 has run with Z = 0 at PC = 3: PC = 4, current_line = 0
C6_Witness ==
  /\ call.op = "execute_instruction"
  /\ call.instruction = JumpLine(OP_JZ, 12)
  /\ cpu_state.special_registers.FLAGS.Z = 0
  /\ cpu_state.special_registers.PC = 4
  /\ cpu_state.current_line = 0

\* C7: a taken jump (JMP, or JZ/JNZ/JC/JN whose flag test holds) with target
\* t leaves PC = t and current_line = t, with no further increment of PC,
\* and changes no register, memory cell or flag
C7_TakenJumpSetsPCAndLine ==
  [][\A op \in ConditionalJumps \cup {OP_JMP}, t \in JumpTargets :
       (Executed(JumpLine(op, t))
          /\ (op = OP_JMP \/ FlagTest(op, cpu_state.special_registers.FLAGS))) =>
         /\ call'.ok
         /\ cpu_state'.special_registers.PC = t
         /\ cpu_state'.current_line = t
         /\ SameDataAndFlags]_vars

\* C7 witness: JC 12 has run with C = 1: PC = 12 and current_line = 12
C7_Witness ==
  /\ call.op = "execute_instruction"
  /\ call.instruction = JumpLine(OP_JC, 12)
  /\ cpu_state.special_registers.FLAGS.C = 1
  /\ cpu_state.special_registers.PC = 12
  /\ cpu_state.current_line = 12
  /\ cpu_state.memory[9] = 200

(***************************************************************************)
(* SpecFollow: a Run-all of a set-up program brings the machine into a      *)
(* starting state, another program is loaded, and Next (Follow-PC) runs it  *)
(***************************************************************************)

\* the empty editor
EmptyText == Text(<<>>)

\* leaves R1 = 5 with PC = 0 and current_line = 0
SetupR1 == Text(<<LoadLine(1, 5), JumpLine(OP_JMP, 0)>>)

\* leaves PC = 3 ahead of current_line = 0
SetupAhead == Text(<<LoadLine(1, 5), OP_NOP, OP_NOP>>)

\* leaves C = N = 1 with PC = current_line = 1
SetupFlags == Text(<<DecLine(2), JumpLine(OP_JMP, 1)>>)

SetupPrograms == {EmptyText, SetupR1, SetupAhead, SetupFlags}

\* LOAD R0,0 / INC R0 / CMP R0,R1 / JNZ 1
LoopProgram ==
  Text(<<LoadLine(0, 0), IncLine(0), Instr2(OP_CMP, RegName(0), RegName(1)),
         JumpLine(OP_JNZ, 1)>>)

\* NOP / JMP 0: control flow that never leaves the program
ForeverProgram == Text(<<OP_NOP, JumpLine(OP_JMP, 0)>>)

\* instructions with a blank line and a comment line between them
StraightProgram ==
  Text(<<LoadLine(0, 7), <<>>, IncLine(0), <<";", " ", "s", "t", "o", "r", "e", " ", "i", "t">>,
         Instr2(OP_STORE, RegName(0), IntStr(3))>>)

\* the second line fails
FailingProgram ==
  Text(<<IncLine(0), Instr2(OP_STORE, RegName(8), IntStr(5)), IncLine(0)>>)

\* a forward jump over two lines
ForwardProgram ==
  Text(<<JumpLine(OP_JMP, 2), IncLine(0), IncLine(1), IncLine(2)>>)

\* jumps to negative targets: -2 makes the loop index the list from its end,
\* -5 makes it index before the start of the list
BackwardProgram == Text(<<JumpLine(OP_JMP, 0 - 2), IncLine(0), OP_NOP>>)
OutOfListProgram == Text(<<OP_NOP, JumpLine(OP_JMP, 0 - 5)>>)

\* two blank lines between instructions
BlankLinesProgram == Text(<<OP_NOP, <<>>, <<>>, IncLine(0), OP_NOP>>)

FollowPrograms ==
  {LoopProgram, ForeverProgram, StraightProgram, FailingProgram,
   ForwardProgram, BackwardProgram, OutOfListProgram, BlankLinesProgram}

InitFollow ==
  /\ cpu_state = CPUState
  /\ state_history = <<>>
  /\ redo_stack = <<>>
  /\ instruction_entry \in SetupPrograms
  /\ pc = "idle"
  /\ loop_i = 0
  /\ iterations = 0
  /\ call = NoCall
  /\ messagebox = NoDialog

NextFollow ==
  \/ (state_history = <<>> /\ on_step_enter)
  \/ on_step_iter
  \/ on_step_exit
  \/ (Len(state_history) = 1 /\ instruction_entry \in SetupPrograms
        /\ \E content \in FollowPrograms : load_program(content))
  \/ (Len(state_history) = 1 /\ instruction_entry \in FollowPrograms
        /\ on_next_enter)
  \/ on_next_iter
  \/ on_next_exit

SpecFollow == InitFollow /\ [][NextFollow]_vars

\* the states in which a pass through the loop body, or the loop's exit, can
\* be taken; both change pc or cpu_state every time
on_next_iter_enabled == pc = "on_next" /\ LoopCondition
on_next_exit_enabled == pc = "on_next" /\ ~LoopCondition

\* the Tk event thread runs a handler it has started to its end: weak
\* fairness of a pass through the loop body and of the loop's exit. These are
\* WF_vars(on_next_iter) and WF_vars(on_next_exit) with ENABLED written out
\* as the guards above
SpecFollowFair ==
  /\ SpecFollow
  /\ ([]<>(~on_next_iter_enabled) \/ []<><<on_next_iter>>_vars)
  /\ ([]<>(~on_next_exit_enabled) \/ []<><<on_next_exit>>_vars)

\* Next has run to its end on the program
FollowDone(program) ==
  pc = "idle" /\ Len(state_history) = 2 /\ instruction_entry = program

\* the number of entries of a sequence equal to x
Count(seq, x) == Cardinality({i \in 1..Len(seq) : seq[i] = x})

\* the instructions this run of Next has appended to instruction_history
RunLog ==
  SubSeq(cpu_state.instruction_history,
         Len(state_history[2].instruction_history) + 1,
         Len(cpu_state.instruction_history))

\* C8: Follow-PC on `LOAD R0,0 / INC R0 / CMP R0,R1 / JNZ 1`, started with
\* R1 = 5, PC = 0 and current_line = 0, halts by running off the end of the
\* program (not by the iteration cap) after the loop body has run exactly 5
\* times, with R0 = 5
C8_LoopRunsFiveTimes ==
  (/\ FollowDone(LoopProgram)
   /\ state_history[2].registers[1] = 5
   /\ state_history[2].special_registers.PC = 0
   /\ state_history[2].current_line = 0)
  => /\ cpu_state.registers[0] = 5
     /\ Count(RunLog, IncLine(0)) = 5
     /\ cpu_state.current_line >= Len(instructions)
     /\ iterations < max_iterations
     /\ messagebox # ExecutionStopped

\* the opcode of a line that execute_instruction was handed
OpcodeOf(line) == Upper(SplitWS(StripComment(line))[1])

JumpOpcodes == ConditionalJumps \cup {OP_JMP}

\* C9: in Follow-PC mode, when the instruction just executed is a taken
\* jump to a target t with 0 <= t < program length, the next line the
\* controller executes is line t; after a non-jump instruction at line k the
\* next line considered is k+1
C9_JumpsHonored ==
  [][(pc = "on_next" /\ call'.op = "execute_instruction" /\ call'.ok) =>
       /\ (call'.path = "return"
             /\ cpu_state'.special_registers.PC \in 0..(Len(instructions) - 1))
            => cpu_state'.current_line = cpu_state'.special_registers.PC
       /\ (OpcodeOf(call'.instruction) \notin JumpOpcodes)
            => cpu_state'.current_line = call'.line_num + 1]_vars

\* C10: every Follow-PC invocation eventually halts, for every program and
\* starting state; it never passes the iteration cap, and when it halts
\* through the cap it does so with the iteration-limit report
C10_FollowPCHalts ==
  /\ (pc = "on_next") ~> (pc = "idle")
  /\ [](iterations <= max_iterations)
  /\ []((pc = "idle" /\ iterations >= max_iterations)
          => messagebox = ExecutionStopped)

\* C10 witness: Next on `NOP / JMP 0` has halted through the cap with the
\* report
C10_Witness ==
  /\ FollowDone(ForeverProgram)
  /\ iterations = max_iterations
  /\ messagebox = ExecutionStopped

(***************************************************************************)
(* Run-all, undo and redo                                                  *)
(***************************************************************************)

\* SpecRun: one program stays in the editor and the buttons Step All, Next,
\* Reset, Undo and Redo are pressed in any order
RunPrograms == {ProgArith, ProgJump, ProgError, ProgJumpBack}

InitRun ==
  /\ cpu_state = CPUState
  /\ state_history = <<>>
  /\ redo_stack = <<>>
  /\ instruction_entry \in RunPrograms
  /\ pc = "idle"
  /\ loop_i = 0
  /\ iterations = 0
  /\ call = NoCall
  /\ messagebox = NoDialog

NextRun ==
  \/ (CanSave /\ on_step_enter)
  \/ on_step_iter
  \/ on_step_exit
  \/ (CanSave /\ on_next_enter)
  \/ on_next_iter
  \/ on_next_exit
  \/ (CanSave /\ on_reset)
  \/ on_undo
  \/ on_redo

SpecRun == InitRun /\ [][NextRun]_vars

\* the lines of a program that Run-all and Follow-PC hand to the engine
\* (stripped), in textual order
CodeLines(lines) ==
  [k \in 1..Cardinality({i \in 1..Len(lines) : IsCode(lines[i])}) |->
     Strip(lines[CHOOSE i \in 1..Len(lines) :
                   /\ IsCode(lines[i])
                   /\ Cardinality({j \in 1..i : IsCode(lines[j])}) = k])]

\* the instructions appended to instruction_history since the last snapshot
SinceSnapshot ==
  SubSeq(cpu_state.instruction_history,
         Len(state_history[Len(state_history)].instruction_history) + 1,
         Len(cpu_state.instruction_history))

\* C11: Run-all executes every non-blank, non-comment line exactly once in
\* textual order whatever jumps the program contains: each pass of the loop
\* takes the next line of the text, also after a taken jump, and when the
\* run ends the instructions it executed are the code lines of the text in
\* order
C11_RunAllTextualOrder ==
  [][(pc = "on_step") =>
       /\ (pc' = "on_step") =>
            /\ loop_i' = loop_i + 1
            /\ IF IsCode(instructions[loop_i + 1])
                 THEN /\ call'.op = "execute_instruction"
                      /\ call'.line_num = loop_i
                      /\ call'.instruction = instructions[loop_i + 1]
                 ELSE call'.op = "none"
       /\ (pc' = "idle") => SinceSnapshot = CodeLines(instructions)]_vars

\* C11 witness: Run-all has executed the taken `JMP 0` at line 3 and then
\* the instruction at line 4
C11_Witness ==
  /\ instruction_entry = ProgJumpBack
  /\ pc = "on_step"
  /\ call.op = "execute_instruction"
  /\ call.line_num = 4
  /\ cpu_state.special_registers.PC = 1
  /\ cpu_state.registers = [CPUState.registers EXCEPT ![0] = 1, ![1] = 1]

\* the fields of the CPU state that undo and redo are to restore
Restored(cs) ==
  [registers |-> cs.registers, memory |-> cs.memory,
   special_registers |-> cs.special_registers,
   instruction_history |-> cs.instruction_history,
   current_line |-> cs.current_line]

\* a step that starts Run-all, Follow-PC or a reset
MutatingEntry ==
  /\ pc = "idle"
  /\ Len(state_history') = Len(state_history) + 1
  /\ redo_stack' = <<>>
  /\ call' = NoCall

\* a step of the Undo handler, of the Redo handler
UndoStep == pc = "idle" /\ pc' = "idle" /\ Len(redo_stack') = Len(redo_stack) + 1
RedoStep == pc = "idle" /\ pc' = "idle" /\ Len(redo_stack') = Len(redo_stack) - 1

\* C12: an undo after a mutating action (Run-all, Follow-PC, reset) leaves
\* registers, memory, PC, IR, MAR, MDR, flags, instruction history and
\* current line as they were immediately before that action: the action puts
\* the state it starts from on top of the undo history, the run leaves that
\* snapshot alone, and undo makes the top snapshot the current state
C12_UndoRestoresPreActionState ==
  [][/\ MutatingEntry =>
          Restored(state_history'[Len(state_history')]) = Restored(cpu_state)
     /\ (pc # "idle") => state_history' = state_history
     /\ UndoStep =>
          Restored(cpu_state') = Restored(state_history[Len(state_history)])]_vars

\* C12 witness: an undo has brought back the state before a Run-all that had
\* executed instructions: the instruction history is empty again and the
\* undone state, with its instruction history, lies on the redo stack
C12_Witness ==
  /\ pc = "idle"
  /\ Len(redo_stack) = 1
  /\ redo_stack[1].instruction_history # <<>>
  /\ redo_stack[1].registers # CPUState.registers
  /\ Restored(cpu_state) = Restored(CPUState)

\* k undos, then k redos, from a state given as a record of cpu_state,
\* state_history and redo_stack
RECURSIVE UndoK(_, _)
UndoK(st, k) ==
  IF k = 0 THEN st
  ELSE UndoK(UndoResult(st.cpu_state, st.state_history, st.redo_stack), k - 1)

RECURSIVE RedoK(_, _)
RedoK(st, k) ==
  IF k = 0 THEN st
  ELSE RedoK(RedoResult(st.cpu_state, st.state_history, st.redo_stack), k - 1)

\* what undo/redo round trips are to give back: the restored fields of the
\* current state, and both stacks
RoundTrip(cs, history, redo) ==
  [cpu_state |-> Restored(cs), state_history |-> history, redo_stack |-> redo]

RoundTripOf(st) == RoundTrip(st.cpu_state, st.state_history, st.redo_stack)

Here(cs, history, redo) ==
  [cpu_state |-> cs, state_history |-> history, redo_stack |-> redo]

\* C13: an undo followed by a redo with no mutating action between gives
\* back registers, memory, PC, IR, MAR, MDR, flags, instruction history and
\* current line of before the undo and the content of both stacks; so do k
\* further undos followed by k redos
C13_UndoRedoIdentity ==
  [][UndoStep =>
       /\ RoundTripOf(RedoK(Here(cpu_state', state_history', redo_stack'), 1))
            = RoundTrip(cpu_state, state_history, redo_stack)
       /\ \A k \in 0..Len(state_history) :
            RoundTripOf(RedoK(UndoK(Here(cpu_state, state_history, redo_stack),
                                    k), k))
              = RoundTrip(cpu_state, state_history, redo_stack)]_vars

\* C13 witness: a redo has followed an undo of the second of two actions:
\* the current state is a restored snapshot (animation_active is off although
\* instructions have run) and both snapshots lie below it
C13_Witness ==
  /\ pc = "idle"
  /\ Len(state_history) = 2
  /\ redo_stack = <<>>
  /\ ~cpu_state.animation_active
  /\ cpu_state.instruction_history # <<>>
  /\ Restored(cpu_state) # Restored(state_history[2])
  /\ Restored(state_history[2]) # Restored(state_history[1])

(***************************************************************************)
(* SpecHistory: Run-all of `INC R0` again and again, with undo and redo,    *)
(* until the undo history has been full and has lost its oldest snapshots   *)
(***************************************************************************)

\* the number of executed instructions up to which Run-all is started
MaxRuns == 52

HistoryProgram == Text(<<IncLine(0)>>)

InitHistory ==
  /\ cpu_state = CPUState
  /\ state_history = <<>>
  /\ redo_stack = <<>>
  /\ instruction_entry = HistoryProgram
  /\ pc = "idle"
  /\ loop_i = 0
  /\ iterations = 0
  /\ call = NoCall
  /\ messagebox = NoDialog

NextHistory ==
  \/ (Len(cpu_state.instruction_history) < MaxRuns /\ on_step_enter)
  \/ on_step_iter
  \/ on_step_exit
  \/ on_undo
  \/ on_redo

SpecHistory == InitHistory /\ [][NextHistory]_vars

\* C14: the undo history never holds more than 50 snapshots, whatever the
\* interleaving of mutating actions, undo and redo; when a snapshot is saved
\* onto a full history it is the oldest snapshot that goes
C14_HistoryCappedAt50 ==
  /\ [](Len(state_history) <= HistoryLimit)
  /\ [][(pc = "idle" /\ pc' # "idle" /\ Len(state_history) = HistoryLimit) =>
          state_history' = Append(Tail(state_history), copy(cpu_state))]_vars

\* C14 witness: 52 runs have evicted the snapshots of R0 = 0 and R0 = 1, and
\* an undo followed by a redo has filled the history to 50 again
C14_Witness ==
  /\ pc = "idle"
  /\ Len(state_history) = HistoryLimit
  /\ state_history[1].registers[0] = 2
  /\ redo_stack = <<>>
  /\ cpu_state.registers[0] = 52
  /\ ~cpu_state.animation_active

\* C15: every mutating action (Run-all, Follow-PC, reset) empties the redo
\* stack, and it stays empty through the run, so that a redo right after
\* changes nothing; an undo grows the redo stack by one and a redo shrinks
\* it by one, and neither does anything else to it.  (An idle step that
\* lengthens the undo history is a reset or a redo; one that shortens it is
\* an undo.)
C15_MutatingActionsClearRedo ==
  [][/\ (pc = "idle" /\ pc' # "idle") => redo_stack' = <<>>
     /\ (pc # "idle") => redo_stack' = <<>>
     /\ (pc = "idle" /\ pc' = "idle"
           /\ Len(state_history') = Len(state_history) + 1) =>
          \/ redo_stack' = <<>> /\ cpu_state' = CPUState
          \/ /\ redo_stack # <<>>
             /\ redo_stack' = SubSeq(redo_stack, 1, Len(redo_stack) - 1)
             /\ cpu_state' = redo_stack[Len(redo_stack)]
     /\ (pc = "idle" /\ pc' = "idle"
           /\ Len(state_history') = Len(state_history) - 1) =>
          /\ Len(redo_stack') = Len(redo_stack) + 1
          /\ SubSeq(redo_stack', 1, Len(redo_stack)) = redo_stack
     /\ (pc = "idle" /\ redo_stack = <<>>) =>
          ~(cpu_state' # cpu_state /\ state_history' = state_history)]_vars

\* C15 witness: Run-all has been started from a state that an undo had
\* restored, and the redo stack is empty
C15_Witness ==
  /\ pc = "on_step"
  /\ loop_i = 0
  /\ redo_stack = <<>>
  /\ Len(state_history) = 2
  /\ ~cpu_state.animation_active
  /\ cpu_state.instruction_history # <<>>

(***************************************************************************)
(* Verify                                                                  *)
(***************************************************************************)

valid_ops ==
  {OP_LOAD, OP_STORE, OP_MOV, OP_ADD, OP_SUB, OP_MUL, OP_INC, OP_DEC, OP_CMP,
   OP_JMP, OP_JZ, OP_JNZ, OP_JC, OP_JN, OP_NOP}

\* one entry of the errors list: f"Line {idx+1}: ..."
VerifyError(idx, msg) == [line |-> idx + 1, msg |-> msg]

\* the operand-count tests of on_verify; NOP has none
VerifyOperands(idx, op, operands) ==
  IF op \in {OP_LOAD, OP_STORE, OP_CMP, OP_MOV}
    THEN (IF Len(operands) # 2
            THEN <<VerifyError(idx, "needs 2 operands")>> ELSE <<>>)
  ELSE IF op \in {OP_ADD, OP_SUB, OP_MUL}
    THEN (IF Len(operands) \notin {2, 3}
            THEN <<VerifyError(idx, "needs 2 or 3 operands")>> ELSE <<>>)
  ELSE IF op \in {OP_INC, OP_DEC, OP_JMP, OP_JZ, OP_JNZ, OP_JC, OP_JN}
    THEN (IF Len(operands) # 1
            THEN <<VerifyError(idx, "needs 1 operand")>> ELSE <<>>)
  ELSE <<>>

\* the body of the try block: tokens are those of the stripped line, with
\* any comment text still in it
VerifyTokens(idx, tokens) ==
  IF Upper(tokens[1]) \notin valid_ops
    THEN <<VerifyError(idx, "Invalid operation")>>
    ELSE VerifyOperands(idx, Upper(tokens[1]), SplitOperands(tokens))

\* one pass of the for loop of on_verify
VerifyLine(idx, instr) ==
  IF ~IsCode(instr) THEN <<>> ELSE VerifyTokens(idx, SplitWS(Strip(instr)))

\* the errors list after the loop has seen the first n lines
RECURSIVE VerifyLines(_, _)
VerifyLines(lines, n) ==
  IF n = 0 THEN <<>>
  ELSE VerifyLines(lines, n - 1) \o VerifyLine(n - 1, lines[n])

VerificationErrors(errors) ==
  [title |-> "Verification Errors", line |-> 0, text |-> "", errors |-> errors]

VerificationValid ==
  [title |-> "Verification", line |-> 0,
   text |-> "All instructions are valid!", errors |-> <<>>]

VerifyDialog(errors) ==
  IF errors # <<>> THEN VerificationErrors(errors) ELSE VerificationValid

on_verify ==
  /\ pc = "idle"
  /\ messagebox' = VerifyDialog(VerifyLines(instructions, Len(instructions)))
  /\ call' = [NoCall EXCEPT !.op = "on_verify"]
  /\ UNCHANGED <<cpu_state, state_history, redo_stack, instruction_entry, pc,
                 loop_i, iterations>>

(***************************************************************************)
(* SpecVerify: two-line programs are verified, before or after a Run-all    *)
(***************************************************************************)

\* lines with a trailing comment, in mixed case, and a NOP with an operand
CommentedLines ==
  {<<"L", "O", "A", "D", " ", "R", "0", " ", ";", " ", "a", ",", "b">>,
   <<"L", "O", "A", "D", " ", "R", "0", ",", "5", " ", ";", " ", "a", ",", "b">>,
   <<"I", "N", "C", " ", "R", "0", " ", "#", " ", "o", "n", "e", ",", " ", "t", "w", "o">>,
   <<"i", "n", "c", " ", "R", "0", " ", ";", "s", "t", "e", "p">>,
   <<"N", "O", "P", " ", "R", "1">>,
   <<"N", "O", "P", " ", ";", " ", "i", "d", "l", "e">>,
   <<"n", "o", "p">>,
   <<"S", "T", "O", "R", "E", " ", "R", "0", ",", "1", ",", "2", " ", "#", " ", "x">>}

VerifyPool ==
  OperandCountLines \cup UnknownOpcodeLines \cup CommentedLines
    \cup {<<>>, <<";", " ", "n", "o", "t", "e">>, LoadLine(0, 5), IncLine(8),
          Instr2(OP_STORE, RegName(8), IntStr(5)),
          Instr2(OP_STORE, RegName(0), IntStr(64))}

VerifyPrograms == {Text(<<a, b>>) : a, b \in VerifyPool}

InitVerify ==
  /\ cpu_state = CPUState
  /\ state_history = <<>>
  /\ redo_stack = <<>>
  /\ instruction_entry \in VerifyPrograms
  /\ pc = "idle"
  /\ loop_i = 0
  /\ iterations = 0
  /\ call = NoCall
  /\ messagebox = NoDialog

NextVerify ==
  \/ (call.op # "on_verify" /\ on_verify)
  \/ (state_history = <<>> /\ on_step_enter)
  \/ on_step_iter
  \/ on_step_exit

SpecVerify == InitVerify /\ [][NextVerify]_vars

\* the operand-count table of the specification, on a line decoded as the
\* engine decodes it (comment cut off first)
TableCounts(op) ==
  IF op \in {OP_LOAD, OP_STORE, OP_CMP, OP_MOV} THEN {2}
  ELSE IF op \in {OP_ADD, OP_SUB, OP_MUL} THEN {2, 3}
  ELSE IF op \in {OP_INC, OP_DEC, OP_JMP, OP_JZ, OP_JNZ, OP_JC, OP_JN} THEN {1}
  ELSE {0}

BreaksTableTokens(tokens) ==
  /\ tokens # <<>>
  /\ \/ Upper(tokens[1]) \notin valid_ops
     \/ Len(SplitOperands(tokens)) \notin TableCounts(Upper(tokens[1]))

BreaksTable(line) == IsCode(line) /\ BreaksTableTokens(SplitWS(StripComment(line)))

Verified == call.op = "on_verify"

\* C16: Verify reports, with its 1-based line number, every non-blank,
\* non-comment line whose opcode is unknown or whose operand count breaks
\* the table (LOAD/STORE/CMP/MOV 2; ADD/SUB/MUL 2 or 3; INC/DEC and the
\* jumps 1; NOP 0), not only the first one
C16_VerifyReportsEveryBadLine ==
  Verified =>
    \A i \in 1..Len(instructions) :
      BreaksTable(instructions[i]) =>
        \E k \in 1..Len(messagebox.errors) : messagebox.errors[k].line = i

(***************************************************************************)
(* Errors during a run, flags, snapshots                                   *)
(***************************************************************************)

\* C17: in Run-all the first instruction that fails aborts the run: no line
\* after the failing one is executed, and registers, memory, special
\* registers and flags stay as they were before the failing instruction
C17_RunAllAbortsOnFailure ==
  [][(pc = "on_step" /\ call.op = "execute_instruction" /\ ~call.ok) =>
       /\ call'.op # "execute_instruction"
       /\ cpu_state'.registers = cpu_state.registers
       /\ cpu_state'.memory = cpu_state.memory
       /\ cpu_state'.special_registers = cpu_state.special_registers]_vars

\* C18: in Follow-PC an execution error ends the invocation at once: the
\* handler is over with the Execution Error dialog for that line, nothing
\* but the failing line has been added to the instruction history, and
\* current_line is still the failing line
C18_FollowPCHaltsOnError ==
  [][(pc = "on_next" /\ call'.op = "execute_instruction" /\ ~call'.ok) =>
       /\ pc' = "idle"
       /\ cpu_state'.current_line = cpu_state.current_line
       /\ cpu_state'.current_line = call'.line_num
       /\ Strip(PyIndex(instructions, cpu_state'.current_line))
            = call'.instruction
       /\ cpu_state'.instruction_history
            = Append(cpu_state.instruction_history, call'.instruction)
       /\ messagebox'.title = "Execution Error"
       /\ messagebox'.line = call'.line_num + 1
       /\ iterations' = iterations]_vars

\* C18 witness: Follow-PC of `INC R0 / STORE R8,5 / INC R0` has stopped at
\* the failing second line with R0 = 1
C18_Witness ==
  /\ FollowDone(FailingProgram)
  /\ call.op = "execute_instruction"
  /\ ~call.ok
  /\ cpu_state.current_line = 1
  /\ cpu_state.registers[0] = 1
  /\ messagebox.title = "Execution Error"

\* the opcode classes of C19
ZNOpcodes == {OP_LOAD, OP_MOV}
NoFlagOpcodes == {OP_STORE, OP_NOP} \cup JumpOpcodes
CVOpcodes == {OP_ADD, OP_SUB, OP_MUL, OP_INC, OP_DEC, OP_CMP}

FlagOf(b) == IF b THEN 1 ELSE 0

\* C19: LOAD and MOV recompute only Z and N (from the value written) and
\* leave C and V as they were; STORE, NOP and every jump, taken or not,
\* leave all four flags as they were; so only ADD, SUB, MUL, INC, DEC and
\* CMP write C and V
C19_FlagFrame ==
  [][(call'.op = "execute_instruction" /\ call'.ok) =>
       /\ OpcodeOf(call'.instruction) \in ZNOpcodes \cup NoFlagOpcodes \cup CVOpcodes
       /\ (OpcodeOf(call'.instruction) \in ZNOpcodes) =>
            /\ cpu_state'.special_registers.FLAGS.C
                 = cpu_state.special_registers.FLAGS.C
            /\ cpu_state'.special_registers.FLAGS.V
                 = cpu_state.special_registers.FLAGS.V
            /\ Cardinality(cpu_state'.modified_registers) = 1
            /\ \A r \in cpu_state'.modified_registers :
                 /\ cpu_state'.special_registers.FLAGS.Z
                      = FlagOf(cpu_state'.registers[r] = 0)
                 /\ cpu_state'.special_registers.FLAGS.N
                      = FlagOf(cpu_state'.registers[r] >= 128)
       /\ (OpcodeOf(call'.instruction) \in NoFlagOpcodes) =>
            cpu_state'.special_registers.FLAGS = cpu_state.special_registers.FLAGS
       /\ (cpu_state'.special_registers.FLAGS.C # cpu_state.special_registers.FLAGS.C
             \/ cpu_state'.special_registers.FLAGS.V
                  # cpu_state.special_registers.FLAGS.V) =>
            OpcodeOf(call'.instruction) \in CVOpcodes]_vars

\* C19 witness: a LOAD of a value that wraps to zero has run with C = V = 1
\* set by the instruction before it: Z is recomputed, C and V are kept
C19_Witness ==
  /\ call.op = "execute_instruction"
  /\ call.ok
  /\ OpcodeOf(call.instruction) = OP_LOAD
  /\ cpu_state.special_registers.FLAGS = [Z |-> 1, N |-> 0, C |-> 1, V |-> 1]

\* C20: each invocation of Run-all or Follow-PC pushes exactly one snapshot
\* onto the undo history, the state at entry, before any instruction runs,
\* however many instructions the run executes; so one undo takes back the
\* whole run
C20_OneSnapshotPerRun ==
  [][/\ (pc = "idle" /\ pc' # "idle") =>
          /\ state_history' = Append(state_history, copy(cpu_state))
          /\ cpu_state' = cpu_state
          /\ call'.op = "none"
     /\ (pc # "idle") =>
          /\ state_history' = state_history
          /\ Len(cpu_state'.instruction_history)
               <= Len(cpu_state.instruction_history) + 1
     /\ (pc # "idle" /\ pc' = "idle") =>
          UndoResult(cpu_state', state_history', redo_stack').cpu_state.instruction_history
            = SubSeq(cpu_state'.instruction_history, 1,
                     Len(cpu_state'.instruction_history) - Len(SinceSnapshot'))]_vars

\* C20 witness: a Run-all of four instructions has ended and the undo
\* history holds the one snapshot taken at its entry
C20_Witness ==
  /\ pc = "idle"
  /\ Len(state_history) = 1
  /\ state_history[1] = CPUState
  /\ Len(cpu_state.instruction_history) = 4
  /\ cpu_state.animation_active

(***************************************************************************)
(* Reset                                                                   *)
(***************************************************************************)

\* an idle step that lengthens the undo history while the redo stack is
\* empty: the Reset handler (Redo does nothing then)
ResetStep ==
  /\ pc = "idle"
  /\ pc' = "idle"
  /\ redo_stack = <<>>
  /\ Len(state_history') = Len(state_history) + 1

\* C21: a reset first puts a snapshot of the state it starts from on top of
\* the undo history and then makes every register and memory cell 0,
\* PC = MAR = MDR = 0, IR empty, all flags 0, the instruction history empty
\* and the current line 0; an undo that follows at once makes the snapshot
\* the current state again, i.e. restores the state before the reset
C21_ResetSnapshotsThenZeroes ==
  [][/\ ResetStep =>
          /\ state_history' = Append(state_history, copy(cpu_state))
          /\ Restored(state_history'[Len(state_history')]) = Restored(cpu_state)
          /\ \A i \in 0..(NumRegisters - 1) : cpu_state'.registers[i] = 0
          /\ \A a \in 0..(MemorySize - 1) : cpu_state'.memory[a] = 0
          /\ cpu_state'.special_registers =
               [PC |-> 0, IR |-> <<>>, MAR |-> 0, MDR |-> 0,
                FLAGS |-> [Z |-> 0, N |-> 0, C |-> 0, V |-> 0]]
          /\ cpu_state'.instruction_history = <<>>
          /\ cpu_state'.current_line = 0
     /\ (UndoStep /\ cpu_state = CPUState /\ redo_stack = <<>>) =>
          /\ Restored(cpu_state') = Restored(state_history[Len(state_history)])
          /\ state_history' = SubSeq(state_history, 1, Len(state_history) - 1)]_vars

\* C21 witness: a reset of a state with non-zero registers has been undone:
\* the zero state lies on the redo stack and the registers and the
\* instruction history of the state before the reset are back
C21_Witness ==
  /\ pc = "idle"
  /\ Len(redo_stack) = 1
  /\ redo_stack[1] = CPUState
  /\ cpu_state.registers # CPUState.registers
  /\ cpu_state.instruction_history # <<>>
  /\ ~cpu_state.animation_active

(***************************************************************************)
(* CMP and STORE: effect and frame                                         *)
(***************************************************************************)

CmpLine(ra, rb) == Instr2(OP_CMP, RegName(ra), RegName(rb))
StoreLine(reg, addr) == Instr2(OP_STORE, RegName(reg), IntStr(addr))

\* C22: CMP Ra,Rb changes no register and no memory cell; with a and b the
\* values of Ra and Rb it leaves Z = 1 exactly when a = b, C = 1 exactly
\* when a < b and N = bit 7 of (a - b) mod 256, and PC is one more than
\* before
C22_CmpSetsFlagsOnly ==
  [][\A ra, rb \in 0..(NumRegisters - 1) :
       Executed(CmpLine(ra, rb)) =>
         /\ call'.ok
         /\ cpu_state'.registers = cpu_state.registers
         /\ cpu_state'.memory = cpu_state.memory
         /\ cpu_state'.special_registers.FLAGS.Z =
              FlagOf(cpu_state.registers[ra] = cpu_state.registers[rb])
         /\ cpu_state'.special_registers.FLAGS.C =
              FlagOf(cpu_state.registers[ra] < cpu_state.registers[rb])
         /\ cpu_state'.special_registers.FLAGS.N =
              FlagOf(Bit7((cpu_state.registers[ra] - cpu_state.registers[rb])
                            % 256))
         /\ cpu_state'.special_registers.PC =
              cpu_state.special_registers.PC + 1]_vars

\* C22 witness: CMP R0,R1 has run with R0 = 200 and R1 = 255: the
\* difference -55 wraps to 201, so C = 1, N = 1, Z = 0, and the registers
\* and memory cell 9 are as the earlier lines left them
C22_Witness ==
  /\ call.op = "execute_instruction"
  /\ call.instruction = CmpLine(0, 1)
  /\ call.ok
  /\ cpu_state.registers[0] = 200
  /\ cpu_state.registers[1] = 255
  /\ cpu_state.memory[9] = 200
  /\ cpu_state.special_registers.FLAGS.Z = 0
  /\ cpu_state.special_registers.FLAGS.C = 1
  /\ cpu_state.special_registers.FLAGS.N = 1
  /\ cpu_state.special_registers.PC = 4

\* C23: STORE Rn,addr with addr in [0,63] makes memory[addr] the value of
\* Rn, MAR = addr and MDR = that value; PC is one more than before, IR is
\* the instruction, and every register, every other memory cell, the four
\* flags and current_line are as before
C23_StoreWritesOneCell ==
  [][\A n \in 0..(NumRegisters - 1), addr \in 0..(MemorySize - 1) :
       Executed(StoreLine(n, addr)) =>
         /\ call'.ok
         /\ cpu_state'.memory =
              [cpu_state.memory EXCEPT ![addr] = cpu_state.registers[n]]
         /\ cpu_state'.special_registers =
              [cpu_state.special_registers EXCEPT
                 !.MAR = addr,
                 !.MDR = cpu_state.registers[n],
                 !.IR = StoreLine(n, addr),
                 !.PC = @ + 1]
         /\ cpu_state'.registers = cpu_state.registers
         /\ cpu_state'.current_line = cpu_state.current_line]_vars

\* C23 witness: STORE R0,63 has run as the fourth line with R0 = 200 after
\* INC R1 had cleared N: cell 63 and MDR hold 200, MAR = 63, cell 9 still
\* holds 200 and the flags are those INC R1 left
C23_Witness ==
  /\ call.op = "execute_instruction"
  /\ call.instruction = StoreLine(0, 63)
  /\ call.ok
  /\ cpu_state.memory[63] = 200
  /\ cpu_state.memory[9] = 200
  /\ cpu_state.special_registers.MAR = 63
  /\ cpu_state.special_registers.MDR = 200
  /\ cpu_state.special_registers.PC = 4
  /\ cpu_state.registers[1] = 1
  /\ cpu_state.special_registers.FLAGS = [Z |-> 0, N |-> 0, C |-> 0, V |-> 0]

(***************************************************************************)
(* Verify against the execution engine                                     *)
(***************************************************************************)

\* the messages of check_register and check_memory
RangeErrors == {check_register(<<"R", "8">>).err, check_memory(MemorySize).err}

\* the engine rejects the line with a range error (the checks look at the
\* operand text only, so the answer is the same in every CPU state)
RangeRejected(line) ==
  /\ IsCode(line)
  /\ ~execute_instruction(CPUState, line).ok
  /\ execute_instruction(CPUState, line).err \in RangeErrors

\* C24: Verify reports, with its 1-based line number, every line that the
\* execution engine rejects with a range error: a register index outside
\* [0,7] or a memory address outside [0,63]
C24_VerifyReportsRangeErrors ==
  Verified =>
    \A i \in 1..Len(instructions) :
      RangeRejected(instructions[i]) =>
        \E k \in 1..Len(messagebox.errors) : messagebox.errors[k].line = i

\* the messages of the engine for an unknown opcode and for a wrong operand
\* count
DecodeErrors ==
  {"Unknown instruction", "requires 1 operand", "requires 2 operands",
   "requires 2 or 3 operands"}

\* the engine rejects the line for its opcode or its operand count (both
\* are tested before any operand is parsed and before any flag is read, so
\* the answer is the same in every CPU state)
DecodeRejected(line) ==
  /\ IsCode(line)
  /\ ~execute_instruction(CPUState, line).ok
  /\ execute_instruction(CPUState, line).err \in DecodeErrors

\* the Verify dialog has an entry for the 1-based line i
Reported(i) == \E k \in 1..Len(messagebox.errors) : messagebox.errors[k].line = i

\* C25: Verify and the execution engine decode a line in the same way, the
\* comment cut off before the operands are split: Verify reports a line
\* exactly when the engine rejects it for its opcode or its operand count
C25_VerifyDecodesAsEngine ==
  Verified =>
    \A i \in 1..Len(instructions) :
      Reported(i) <=> DecodeRejected(instructions[i])

(***************************************************************************)
(* Follow-PC: the iteration cap, the range of PC, blank lines              *)
(***************************************************************************)

\* C26: one invocation of Follow-PC executes at most 1000 instructions
\* (every executed instruction counting as one iteration against the cap):
\* while the handler runs, the instructions it has handed to the engine
\* since its snapshot number at most max_iterations
C26_FollowPCExecutesAtMostCap ==
  (pc = "on_next") => Len(SinceSnapshot) <= max_iterations

\* C27: PC is a non-negative integer in every reachable state, whatever
\* jumps have been executed, and Follow-PC fetches program lines at indexes
\* in [0, program length) only
C27_PCNonNegative ==
  /\ cpu_state.special_registers.PC >= 0
  /\ (pc = "on_next" /\ call.op = "execute_instruction") =>
       call.line_num \in 0..(Len(instructions) - 1)

\* the operands of a line as the engine splits them, and the value of the
\* register the k-th operand names
OperandsOf(line) == SplitOperands(SplitWS(StripComment(line)))
RegisterValue(cs, line, k) == cs.registers[check_register(OperandsOf(line)[k]).val]

\* the result of an arithmetic-class instruction before it is wrapped
Unwrapped(cs, line) ==
  CASE OpcodeOf(line) = OP_INC -> RegisterValue(cs, line, 1) + 1
    [] OpcodeOf(line) = OP_DEC -> RegisterValue(cs, line, 1) - 1
    [] OpcodeOf(line) = OP_CMP ->
         RegisterValue(cs, line, 1) - RegisterValue(cs, line, 2)
    [] OpcodeOf(line) \in {OP_ADD, OP_SUB, OP_MUL} ->
         IF Len(OperandsOf(line)) = 2
           THEN Arith(OpcodeOf(line), RegisterValue(cs, line, 1),
                      RegisterValue(cs, line, 2))
           ELSE Arith(OpcodeOf(line), RegisterValue(cs, line, 2),
                      RegisterValue(cs, line, 3))

FlagC(cs) == cs.special_registers.FLAGS.C
FlagV(cs) == cs.special_registers.FLAGS.V

\* C28: the flags C and V are equal in every reachable state: both are 0
\* at the start, every ADD, SUB, MUL, INC, DEC and CMP that succeeds sets
\* both to 1 exactly when its unwrapped result lies outside [0,255], every
\* other instruction and every failing one leaves both as they were, and
\* the controller actions (reset, undo, redo) never make them differ
C28_CarryEqualsOverflow ==
  [][/\ FlagC(cpu_state) = FlagV(cpu_state)
     /\ FlagC(cpu_state') = FlagV(cpu_state')
     /\ (cpu_state = CPUState) => FlagC(cpu_state) = 0
     /\ (call'.op = "execute_instruction") =>
          IF call'.ok /\ OpcodeOf(call'.instruction) \in CVOpcodes
            THEN FlagC(cpu_state') =
                   FlagOf(Unwrapped(cpu_state, call'.instruction) \notin 0..255)
            ELSE /\ FlagC(cpu_state') = FlagC(cpu_state)
                 /\ FlagV(cpu_state') = FlagV(cpu_state)]_vars

\* C28 witness: the `CMP R6,R7` of the example program has run with R6 = 1
\* and R7 = 5: the unwrapped difference is -4 and C = V = 1
C28_Witness ==
  /\ call.op = "execute_instruction"
  /\ call.ok
  /\ OpcodeOf(call.instruction) = OP_CMP
  /\ cpu_state.registers[6] = 1
  /\ cpu_state.registers[7] = 5
  /\ FlagC(cpu_state) = 1
  /\ FlagV(cpu_state) = 1

\* the loop of on_step as a function: the CPU state after Run-all has gone
\* through the first n lines, starting from cs
RECURSIVE on_step_loop(_, _, _)
on_step_loop(cs, lines, n) ==
  IF n = 0 THEN cs
  ELSE IF IsCode(lines[n])
    THEN execute_instruction(
           [on_step_loop(cs, lines, n - 1) EXCEPT
              !.instruction_history = Append(@, Strip(lines[n])),
              !.animation_active = TRUE],
           lines[n]).cs
  ELSE on_step_loop(cs, lines, n - 1)

\* no line of the program is a jump
JumpFree(lines) ==
  \A i \in 1..Len(lines) :
    IsCode(lines[i]) => OpcodeOf(lines[i]) \notin JumpOpcodes

\* Follow-PC has run to its end, without any dialog, on a jump-free program
\* that it started with PC = 0 and current_line = 0
FollowedStraight ==
  /\ pc = "idle"
  /\ Len(state_history) = 2
  /\ instruction_entry \in FollowPrograms
  /\ JumpFree(instructions)
  /\ messagebox = NoDialog
  /\ state_history[2].special_registers.PC = 0
  /\ state_history[2].current_line = 0

\* C29: on a program without jumps and without errors, with blank or
\* comment-only lines between the instructions, Follow-PC started from
\* PC = 0 and current_line = 0 executes each code line exactly once in
\* textual order, and ends with the registers, memory and flags that
\* Run-all gives on the same program from the same state
C29_FollowPCAgreesWithRunAll ==
  FollowedStraight =>
    /\ SinceSnapshot = CodeLines(instructions)
    /\ cpu_state.registers =
         on_step_loop(state_history[2], instructions, Len(instructions)).registers
    /\ cpu_state.memory =
         on_step_loop(state_history[2], instructions, Len(instructions)).memory
    /\ cpu_state.special_registers.FLAGS =
         on_step_loop(state_history[2], instructions,
                      Len(instructions)).special_registers.FLAGS

====
